---- MODULE Spec2Model ----
(***************************************************************************)
(* Purchase lifecycle and payment confirmation of the prepaid-card backend *)
(* (src/main.py, src/schemas.py).                                          *)
(*                                                                         *)
(* The handlers are synchronous FastAPI endpoints and run concurrently on  *)
(* the server's thread pool.  Every handler is cut at the points where it  *)
(* touches shared state (the purchase collection, the payment provider):   *)
(* one action per such step, the handler's position kept in calls[i].pc.   *)
(* A handler that returns leaves calls; its locals, the email it sent and  *)
(* its response stay visible in returned until the next handler returns.   *)
(*                                                                         *)
(* Strings are modelled by what the code does with them:                   *)
(*   None          Python None (an absent query parameter)                 *)
(*   EmptyStr      ""  (falsy, like None)                                  *)
(*   JunkStr       a non-empty string that is not a 24-digit hex id        *)
(*   OidStr(n)     str(ObjectId n), the identifier create_document returns *)
(*   SessionId(k)  the id of the provider's k-th checkout session          *)
(* customer_name, customer_phone and delivery_method are copied from the   *)
(* payload into the record and never read again; they are left out.        *)
(***************************************************************************)
EXTENDS Integers, Sequences, FiniteSets, TLC

\* ------------------------------------------------------------------ bounds
\* Requests (create_checkout and confirm calls together) the server receives.
MaxRequests == 3

\* ------------------------------------------------------------------ inputs
\* amount of CreateCheckoutPayload: one configured top-up option, one that is not
RequestAmounts == {20, 15}
Emails == {"ana@example.com"}
FRONTEND_URL == "http://localhost:3000"

\* ------------------------------------------------------------- PricingConfig
card_issue_price == 5
topup_options == {10, 20, 30, 50}
Providers == {"stripe", "mock"}

VARIABLES
    PAYMENT_PROVIDER,   \* "stripe" iff STRIPE_SECRET_KEY is set; fixed per process
    db,                 \* db["prepaidcardpurchase"]: document n has _id ObjectId n
    stripe,             \* the provider account's checkout sessions, by session number
    calls,              \* the requests being handled, with each handler's locals
    received,           \* how many requests the server has accepted so far
    returned,           \* the request that returned last, with its response
    now                 \* datetime.now(timezone.utc), a logical clock

vars == <<PAYMENT_PROVIDER, db, stripe, calls, received, returned, now>>

\* ------------------------------------------------------------------ strings
None == [kind |-> "none"]
EmptyStr == [kind |-> "empty"]
JunkStr == [kind |-> "junk"]
OidStr(n) == [kind |-> "oid", oid |-> n]
SessionId(k) == [kind |-> "cs", session |-> k]

\* Python truthiness of an Optional[str]: `not x` holds of None and of "".
Truthy(s) == s.kind \notin {"none", "empty"}

\* bson.ObjectId(s) raises InvalidId unless s is a 24-digit hex string.
IsObjectId(s) == s.kind = "oid"
ObjectId(s) == s.oid

\* ---------------------------------------------------------------- responses
HTTPException(status_code, detail) ==
    [status_code |-> status_code, detail |-> detail]

CheckoutResponse(provider, url, message, purchase_id) ==
    [status_code |-> 200, provider |-> provider, url |-> url,
     message |-> message, purchase_id |-> purchase_id]

\* Faulty variant: the acknowledgement does not echo the identifier.
ConfirmOk_NoEcho(purchase_id) ==
    [status_code |-> 200, status |-> "ok", purchase_id |-> None]

\* return {"status": "ok", "purchase_id": ...}
ConfirmOk(purchase_id) ==
    [status_code |-> 200, status |-> "ok", purchase_id |-> purchase_id]

\* A message: the text of a detail, or str() of a library exception.
Text(t) == [text |-> t]

\* str() of an HTTPException is "<status_code>: <detail>"
StrOfHTTPException(e) ==
    [status_code |-> e.status_code, sep |-> ": ", detail |-> e.detail]

\* except Exception as e: raise HTTPException(400, f"Error confirmando el pago: {str(e)}")
ConfirmError(e) ==
    HTTPException(400, [prefix |-> "Error confirmando el pago: ", str_e |-> e])

\* ------------------------------------------------------------------- schema
\* Faulty variant: the amount is not checked against the options.
ValidAmount_Any(amount) == amount \in Int

\* payload.amount in config.topup_options
ValidAmount(amount) == amount \in topup_options

\* Faulty variant: the issuance price is left out of the total.
PrepaidCardPurchase_TotalIsAmount(payload_amount, payload_email, t) ==
    [customer_email    |-> payload_email,
     amount_selected   |-> payload_amount,
     card_price        |-> card_issue_price,
     total_price       |-> payload_amount,
     payment_provider  |-> PAYMENT_PROVIDER,
     payment_status    |-> "pending",
     payment_reference |-> None,
     created_at        |-> t,
     updated_at        |-> t]

\* Faulty variant: the record is inserted as already paid.
PrepaidCardPurchase_BornPaid(payload_amount, payload_email, t) ==
    [customer_email    |-> payload_email,
     amount_selected   |-> payload_amount,
     card_price        |-> card_issue_price,
     total_price       |-> card_issue_price + payload_amount,
     payment_provider  |-> PAYMENT_PROVIDER,
     payment_status    |-> "paid",
     payment_reference |-> None,
     created_at        |-> t,
     updated_at        |-> t]

PrepaidCardPurchase(payload_amount, payload_email, t) ==
    [customer_email    |-> payload_email,
     amount_selected   |-> payload_amount,
     card_price        |-> card_issue_price,
     total_price       |-> card_issue_price + payload_amount,
     payment_provider  |-> PAYMENT_PROVIDER,
     payment_status    |-> "pending",
     payment_reference |-> None,
     created_at        |-> t,
     updated_at        |-> t]

\* create_document(collection, model): inserts the document, returns str(_id).
create_document(coll, doc) == Append(coll, doc)
inserted_id(coll) == OidStr(Len(coll) + 1)

\* collection.update_one({"_id": oid}, {"$set": set}): no match, no change.
update_one(coll, oid, set) ==
    [n \in DOMAIN coll |->
        IF n = oid
        THEN [f \in DOMAIN coll[n] |->
                 IF f \in DOMAIN set THEN set[f] ELSE coll[n][f]]
        ELSE coll[n]]

\* Faulty variant: the mock update sets no payment_reference.
MockPaid_NoReference(t) ==
    [payment_status |-> "paid", updated_at |-> t]

MockPaid(t) ==
    [payment_status |-> "paid", updated_at |-> t,
     payment_reference |-> [kind |-> "mock-ok"]]

\* Faulty variant: the confirmation update sets no payment_reference.
StripePaid_NoReference(session_id, t) ==
    [payment_status |-> "paid", updated_at |-> t]

StripePaid(session_id, t) ==
    [payment_status |-> "paid", payment_reference |-> session_id,
     updated_at |-> t]

\* ---------------------------------------------------------------------- urls
success_url(purchase_id) ==
    [base |-> FRONTEND_URL, path |-> "/exito?purchase_id=",
     purchase_id |-> purchase_id]

session_url(k) == [base |-> "https://checkout.stripe.com", session |-> k]

\* Faulty variant: the response reports the configured provider.
MockResponse_Configured(purchase_id) ==
    CheckoutResponse(PAYMENT_PROVIDER, success_url(purchase_id),
                     "Pago simulado con exito", purchase_id)

\* CheckoutResponse(provider="mock", url=success_url, message=..., purchase_id=...)
MockResponse(purchase_id) ==
    CheckoutResponse("mock", success_url(purchase_id),
                     "Pago simulado con exito", purchase_id)

\* ----------------------------------------------------------------- provider
NoMetadata == [kind |-> "empty"]
Metadata(purchase_id) == [kind |-> "dict", purchase_id |-> purchase_id]

\* A session of the account that this program did not create: no metadata.
ForeignSession ==
    [metadata |-> NoMetadata, payment_status |-> "unpaid",
     customer_email |-> None, customer_details |-> None]

NewSession(purchase_id, email) ==
    [metadata |-> Metadata(purchase_id), payment_status |-> "unpaid",
     customer_email |-> email,
     customer_details |-> None]

\* Faulty variant: the purchase id is always taken from the query string.
ResolvePid_FromQuery(session, purchase_id) == purchase_id

\* pid = session.metadata.get("purchase_id") if session.metadata else purchase_id
ResolvePid(session, purchase_id) ==
    IF session.metadata.kind = "dict"
    THEN session.metadata.purchase_id
    ELSE purchase_id

\* Faulty variant: the session's payment_status is not looked at.
Confirmed_AnyStatus(session, pid) == Truthy(pid)

\* if session.payment_status == "paid" and pid
Confirmed(session, pid) == session.payment_status = "paid" /\ Truthy(pid)

\* email = session.customer_details.email if session.customer_details else None
SessionEmail(session) ==
    IF session.customer_details.kind = "none"
    THEN None
    ELSE session.customer_details

\* -------------------------------------------------------------------- calls
NewCall(op) ==
    [op |-> op, pc |-> "done", amount |-> 0, email |-> None,
     session_id |-> None, purchase_id |-> None, pid |-> None,
     session |-> None, stripe_error |-> FALSE, mail |-> None,
     response |-> None]

\* _send_confirmation_email(to_email, subject, content): prints the message.
Mail(to, purchase_id) == [kind |-> "mail", to |-> to, purchase_id |-> purchase_id]

Remove(seq, i) == [j \in 1..(Len(seq) - 1) |-> IF j < i THEN seq[j] ELSE seq[j + 1]]

\* Query parameters of confirm.  Session ids are assigned by the provider and
\* document ids by the database driver, so a caller names either one that
\* exists or one that was never assigned: SessionId(0), OidStr(0).
SessionArgs ==
    {None, EmptyStr, SessionId(0)} \cup {SessionId(k) : k \in DOMAIN stripe}
PurchaseArgs ==
    {None, EmptyStr, JunkStr, OidStr(0)} \cup {OidStr(n) : n \in DOMAIN db}

\* customer_details of a completed session: the address the payer typed, or
\* null when the provider reports none.
CustomerDetails == {None} \cup {[kind |-> "email", email |-> e] : e \in Emails}

\* The process has just started: STRIPE_SECRET_KEY decides the provider, the
\* collection is empty, no request has arrived.  `account` is what the
\* provider account already holds.
Start(account) ==
    /\ PAYMENT_PROVIDER \in Providers
    /\ db = <<>>
    /\ stripe = IF PAYMENT_PROVIDER = "stripe" THEN account ELSE <<>>
    /\ calls = <<>>
    /\ received = 0
    /\ returned = NewCall("none")
    /\ now = 0

\* The account holds one session that this program did not create.
Init == Start(<<ForeignSession>>)

\* The account holds only the sessions this program creates.
InitOwnSessions == Start(<<>>)

\* create_checkout, lines 104-125: validate, build the record, insert it.
\* (The detail of line 107 is "Monto de recarga no válido"; it is written
\* without the accent here.)  create_document either inserts the record or
\* fails because the database is unreachable, which the framework answers
\* with a 500.
create_checkout(amount, email) ==
    /\ received < MaxRequests
    /\ received' = received + 1
    /\ LET c == [NewCall("create_checkout") EXCEPT
                    !.amount = amount,
                    !.email = [kind |-> "email", email |-> email]]
       IN
       IF ~ValidAmount(amount)
       THEN /\ returned' = [c EXCEPT !.response =
                            HTTPException(400, Text("Monto de recarga no valido"))]
            /\ UNCHANGED <<db, calls, now>>
       ELSE \/ /\ db' = create_document(db, PrepaidCardPurchase(amount, c.email, now))
               /\ now' = now + 1
               /\ calls' = Append(calls, [c EXCEPT
                     !.purchase_id = inserted_id(db),
                     !.pc = IF PAYMENT_PROVIDER = "stripe"
                            THEN "session_create" ELSE "mark_paid"])
               /\ UNCHANGED returned
            \/ \* create_document fails: the database is unreachable
               /\ returned' = [c EXCEPT !.response =
                            HTTPException(500, Text("Internal Server Error"))]
               /\ UNCHANGED <<db, calls, now>>
    /\ UNCHANGED <<PAYMENT_PROVIDER, stripe>>

\* create_checkout, lines 131-172: stripe.checkout.Session.create.
session_create(i) ==
    /\ calls[i].pc = "session_create"
    /\ \/ /\ stripe' = Append(stripe,
                  NewSession(calls[i].purchase_id, calls[i].email))
          /\ calls' = Remove(calls, i)
          /\ returned' = [calls[i] EXCEPT !.pc = "done",
                 !.response = CheckoutResponse("stripe",
                     session_url(Len(stripe) + 1), None, calls[i].purchase_id)]
       \/ \* except Exception: fall through to the mock branch
          /\ calls' = [calls EXCEPT ![i].pc = "mark_paid",
                                    ![i].stripe_error = TRUE]
          /\ UNCHANGED <<stripe, returned>>
    /\ UNCHANGED <<PAYMENT_PROVIDER, db, received, now>>

\* create_checkout, lines 174-194: mark paid, send the email, respond.
mark_paid(i) ==
    /\ calls[i].pc = "mark_paid"
    /\ db' = update_one(db, ObjectId(calls[i].purchase_id), MockPaid(now))
    /\ now' = now + 1
    /\ calls' = Remove(calls, i)
    /\ returned' = [calls[i] EXCEPT !.pc = "done",
           !.mail = Mail(calls[i].email, calls[i].purchase_id),
           !.response = MockResponse(calls[i].purchase_id)]
    /\ UNCHANGED <<PAYMENT_PROVIDER, stripe, received>>

\* confirm, lines 198-208 and 227-235: everything up to the store update.
ConfirmStep(c) ==
    IF PAYMENT_PROVIDER = "stripe"
    THEN IF ~Truthy(c.session_id)
         THEN [c EXCEPT !.response = HTTPException(400, Text("Falta session_id"))]
         ELSE IF c.session_id.session \notin DOMAIN stripe
         THEN \* Session.retrieve raises InvalidRequestError
              [c EXCEPT !.response = ConfirmError(Text("No such checkout.session"))]
         ELSE LET session == stripe[c.session_id.session]
                  pid == ResolvePid(session, c.purchase_id)
              IN  IF ~Confirmed(session, pid)
                  THEN [c EXCEPT !.session = session, !.pid = pid,
                          !.response = ConfirmError(StrOfHTTPException(
                              HTTPException(400, Text("Pago no confirmado"))))]
                  ELSE IF ~IsObjectId(pid)
                  THEN [c EXCEPT !.session = session, !.pid = pid,
                          !.response = ConfirmError(Text("InvalidId"))]
                  ELSE [c EXCEPT !.session = session, !.pid = pid,
                          !.pc = "confirm_update"]
    ELSE IF ~Truthy(c.purchase_id)
         THEN [c EXCEPT !.response = HTTPException(400, Text("Falta purchase_id"))]
         ELSE [c EXCEPT !.response = ConfirmOk(c.purchase_id)]

confirm(session_id, purchase_id) ==
    /\ received < MaxRequests
    /\ received' = received + 1
    /\ LET c == ConfirmStep([NewCall("confirm") EXCEPT
                    !.session_id = session_id, !.purchase_id = purchase_id])
       IN  IF c.pc = "done"
           THEN returned' = c /\ UNCHANGED calls
           ELSE calls' = Append(calls, c) /\ UNCHANGED returned
    /\ UNCHANGED <<PAYMENT_PROVIDER, db, stripe, now>>

\* confirm, lines 209-226: update the record, send the email, respond.
confirm_update(i) ==
    /\ calls[i].pc = "confirm_update"
    /\ db' = update_one(db, ObjectId(calls[i].pid),
                        StripePaid(calls[i].session_id, now))
    /\ now' = now + 1
    /\ calls' = Remove(calls, i)
    /\ LET email == SessionEmail(calls[i].session) IN
       returned' = [calls[i] EXCEPT !.pc = "done",
           !.mail = IF Truthy(email) THEN Mail(email, calls[i].pid) ELSE None,
           !.response = ConfirmOk(calls[i].pid)]
    /\ UNCHANGED <<PAYMENT_PROVIDER, stripe, received>>

\* The payer completes a hosted checkout session (outside this program).
pay(k, details) ==
    /\ stripe[k].payment_status = "unpaid"
    /\ stripe' = [stripe EXCEPT ![k].payment_status = "paid",
                                ![k].customer_details = details]
    /\ UNCHANGED <<PAYMENT_PROVIDER, db, calls, received, returned, now>>

Next ==
    \/ \E amount \in RequestAmounts, email \in Emails : create_checkout(amount, email)
    \/ \E i \in DOMAIN calls : session_create(i)
    \/ \E i \in DOMAIN calls : mark_paid(i)
    \/ \E s \in SessionArgs, p \in PurchaseArgs : confirm(s, p)
    \/ \E i \in DOMAIN calls : confirm_update(i)
    \/ \E k \in DOMAIN stripe, details \in CustomerDetails : pay(k, details)

Spec == Init /\ [][Next]_vars

SpecOwnSessions == InitOwnSessions /\ [][Next]_vars

\* ======================================================================
\* Properties
\* ======================================================================
MockOk == [kind |-> "mock-ok"]
Pending(n) == db[n].payment_status = "pending"
Paid(n) == db[n].payment_status = "paid"

\* C1: a create_checkout request whose amount is not one of the configured
\* top-up options {10,20,30,50} fails with a 400 "invalid amount" error in
\* either provider mode and leaves the purchase store as it was: nothing is
\* inserted, nothing is modified, and no handler stays behind to do so later.
\* No stored record ever carries such an amount.
C1_InvalidAmountStep ==
    \A amount \in RequestAmounts, email \in Emails :
        (amount \notin {10, 20, 30, 50} /\ create_checkout(amount, email)) =>
            /\ returned'.op = "create_checkout"
            /\ returned'.amount = amount
            /\ returned'.response.status_code = 400
            /\ returned'.response.detail = [text |-> "Monto de recarga no valido"]
            /\ returned'.mail = None
            /\ db' = db
            /\ calls' = calls
C1_StoredAmountsAllowed ==
    \A n \in DOMAIN db : db[n].amount_selected \in {10, 20, 30, 50}
C1_InvalidAmountRejected ==
    [][C1_InvalidAmountStep]_vars /\ []C1_StoredAmountsAllowed
C1_Witness ==
    /\ returned.op = "create_checkout"
    /\ returned.amount = 15
    /\ returned.response.status_code = 400
    /\ db # <<>>

\* C2: in mock mode, when a create_checkout call for an allowed amount
\* returns its response, the record it created is "paid" with reference
\* "mock-ok", and the response names provider "mock", that record's id and a
\* success URL ending in /exito?purchase_id=<that id>.
C2_MockCheckoutPaid ==
    (/\ PAYMENT_PROVIDER = "mock"
     /\ returned.op = "create_checkout"
     /\ returned.response.status_code = 200) =>
        LET id == returned.response.purchase_id IN
        /\ id = OidStr(id.oid)
        /\ id.oid \in DOMAIN db
        /\ db[id.oid].amount_selected = returned.amount
        /\ db[id.oid].payment_status = "paid"
        /\ db[id.oid].payment_reference = MockOk
        /\ returned.response.provider = "mock"
        /\ returned.response.url.path = "/exito?purchase_id="
        /\ returned.response.url.purchase_id = id
        /\ returned.mail # None
        /\ returned.mail.purchase_id = id
C2_Witness ==
    /\ PAYMENT_PROVIDER = "mock"
    /\ returned.op = "create_checkout"
    /\ returned.response.status_code = 200
    /\ returned.response.purchase_id = OidStr(2)
    /\ Paid(2)

\* C3: in every reachable state, in either provider mode, every record of
\* the store has total_price = card_price + amount_selected, with card_price
\* the configured issuance price (5).
C3_TotalPrice ==
    \A n \in DOMAIN db :
        /\ db[n].card_price = 5
        /\ db[n].total_price = db[n].card_price + db[n].amount_selected
C3_Witness ==
    /\ PAYMENT_PROVIDER = "stripe"
    /\ \E n \in DOMAIN db :
          /\ Paid(n)
          /\ db[n].payment_reference.kind = "cs"
          /\ db[n].total_price = 25

\* C4 as stated: in mock mode, confirm called with ANY string as
\* purchase_id answers {status: "ok", purchase_id: <that string>} and leaves
\* the store unchanged.
C4_AnyStringEchoed ==
    [][\A s \in SessionArgs, p \in PurchaseArgs :
          (PAYMENT_PROVIDER = "mock" /\ p # None /\ confirm(s, p)) =>
              /\ returned'.response.status_code = 200
              /\ returned'.response = [status_code |-> 200, status |-> "ok",
                                       purchase_id |-> p]
              /\ db' = db]_vars

\* C4 (amended): in mock mode, confirm called with any NON-EMPTY string as
\* purchase_id (a created id, a well-formed id that was never created, or
\* a string that is no id at all) answers {status: "ok", purchase_id: <that
\* string>}, sends no email and leaves the store unchanged; with the empty
\* string (or with no purchase_id) it fails with 400 "Falta purchase_id",
\* the store unchanged as well.
C4_NonEmptyStringEchoed ==
    [][\A s \in SessionArgs, p \in PurchaseArgs :
          (PAYMENT_PROVIDER = "mock" /\ confirm(s, p)) =>
              /\ db' = db
              /\ calls' = calls
              /\ returned'.mail = None
              /\ IF p.kind \in {"none", "empty"}
                 THEN returned'.response =
                         [status_code |-> 400,
                          detail |-> [text |-> "Falta purchase_id"]]
                 ELSE returned'.response = [status_code |-> 200, status |-> "ok",
                                            purchase_id |-> p]]_vars
C4_Witness ==
    /\ PAYMENT_PROVIDER = "mock"
    /\ returned.op = "confirm"
    /\ returned.purchase_id = OidStr(0)
    /\ returned.response.status_code = 200
    /\ returned.response.purchase_id = OidStr(0)
    /\ db # <<>>

\* C5: in real-provider mode, confirm called with the id of a session that
\* the provider reports as not paid fails with a 400 error whose reason is
\* "Pago no confirmado", sends no email and leaves every record of the store
\* unchanged (the handler returns without reaching the update).
C5_UnpaidSessionRejected ==
    [][\A s \in SessionArgs, p \in PurchaseArgs :
          (/\ PAYMENT_PROVIDER = "stripe"
           /\ s.kind = "cs"
           /\ s.session \in DOMAIN stripe
           /\ stripe[s.session].payment_status # "paid"
           /\ confirm(s, p)) =>
              /\ returned'.op = "confirm"
              /\ returned'.session_id = s
              /\ returned'.response.status_code = 400
              /\ returned'.response.detail =
                    [prefix |-> "Error confirmando el pago: ",
                     str_e |-> [status_code |-> 400, sep |-> ": ",
                                detail |-> [text |-> "Pago no confirmado"]]]
              /\ returned'.mail = None
              /\ db' = db
              /\ calls' = calls]_vars
C5_Witness ==
    /\ PAYMENT_PROVIDER = "stripe"
    /\ returned.op = "confirm"
    /\ returned.session # None
    /\ returned.session.payment_status = "unpaid"
    /\ returned.session.metadata = [kind |-> "dict", purchase_id |-> OidStr(1)]
    /\ returned.response.status_code = 400
    /\ Pending(1)

\* C6: in real-provider mode, when the session-creation call raises during
\* create_checkout for an allowed amount, the request does not fail: the
\* handler goes on to the mock branch, and when it returns the response has
\* provider "mock" and the id of the record just created, that record is
\* "paid" with reference "mock-ok", and its stored payment_provider is still
\* the real provider.
C6_FallbackToMock ==
    /\ \A i \in DOMAIN calls :
          calls[i].stripe_error =>
              /\ PAYMENT_PROVIDER = "stripe"
              /\ calls[i].pc = "mark_paid"
              /\ calls[i].amount \in {10, 20, 30, 50}
              /\ calls[i].purchase_id.oid \in DOMAIN db
    /\ (returned.op = "create_checkout" /\ returned.stripe_error) =>
          LET id == returned.purchase_id IN
          /\ PAYMENT_PROVIDER = "stripe"
          /\ returned.response.status_code = 200
          /\ returned.response.provider = "mock"
          /\ returned.response.purchase_id = id
          /\ id.oid \in DOMAIN db
          /\ db[id.oid].payment_status = "paid"
          /\ db[id.oid].payment_reference = MockOk
          /\ db[id.oid].payment_provider = "stripe"
C6_Witness ==
    /\ PAYMENT_PROVIDER = "stripe"
    /\ returned.op = "create_checkout"
    /\ returned.stripe_error
    /\ returned.response.provider = "mock"
    /\ db[returned.purchase_id.oid].payment_provider = "stripe"
    /\ db[returned.purchase_id.oid].payment_reference = MockOk

\* Session creation succeeded for record n: the provider holds a session
\* whose metadata carries n's identifier.
HasOwnSession(n) ==
    \E k \in DOMAIN stripe :
        stripe[k].metadata = [kind |-> "dict", purchase_id |-> OidStr(n)]

\* The response of a create_checkout call whose session creation succeeded:
\* the real provider, the provider's redirect URL for the session made for
\* this purchase, the new purchase id, and no email.
C7_Response ==
    (/\ PAYMENT_PROVIDER = "stripe"
     /\ returned.op = "create_checkout"
     /\ returned.response.status_code = 200
     /\ ~returned.stripe_error) =>
        LET id == returned.purchase_id IN
        /\ returned.response.provider = "stripe"
        /\ returned.response.purchase_id = id
        /\ id.oid \in DOMAIN db
        /\ returned.response.url.base = "https://checkout.stripe.com"
        /\ returned.response.url.session \in DOMAIN stripe
        /\ stripe[returned.response.url.session].metadata =
              [kind |-> "dict", purchase_id |-> id]
        /\ returned.mail = None

\* The step is the completion of a confirm call for a provider-paid session
\* whose METADATA carries n's identifier, and it marks n paid.
ConfirmedByMetadata(n) ==
    /\ returned'.op = "confirm"
    /\ returned'.response.status_code = 200
    /\ returned'.session.payment_status = "paid"
    /\ returned'.session.metadata = [kind |-> "dict", purchase_id |-> OidStr(n)]
    /\ db'[n].payment_status = "paid"
    /\ db'[n].payment_reference = returned'.session_id

\* The step is the completion of a confirm call for a provider-paid session
\* that resolves to n: through its metadata or, when the session has no
\* metadata, through the purchase_id query parameter.  It marks n paid.
ConfirmedByResolution(n) ==
    /\ returned'.op = "confirm"
    /\ returned'.response.status_code = 200
    /\ returned'.session.payment_status = "paid"
    /\ OidStr(n) = IF returned'.session.metadata.kind = "dict"
                   THEN returned'.session.metadata.purchase_id
                   ELSE returned'.purchase_id
    /\ db'[n].payment_status = "paid"
    /\ db'[n].payment_reference = returned'.session_id

\* C7 as stated: in real-provider mode, when session creation succeeds the
\* response has the real provider, the redirect URL and the new id, no
\* email is sent, the record is "pending" with a null reference when the
\* call returns, and it stays so in every later state until a confirm call
\* for a provider-paid session whose metadata carries that id completes.
C7_PendingUntilMetadataConfirm ==
    /\ []C7_Response
    /\ [](\A n \in DOMAIN db :
             (/\ PAYMENT_PROVIDER = "stripe"
              /\ returned.op = "create_checkout"
              /\ returned.response.status_code = 200
              /\ ~returned.stripe_error
              /\ returned.purchase_id = OidStr(n)) =>
                 (Pending(n) /\ db[n].payment_reference = None))
    /\ [][\A n \in DOMAIN db :
             (HasOwnSession(n) /\ Pending(n)) =>
                 /\ db[n].payment_reference = None
                 /\ (db'[n] = db[n] \/ ConfirmedByMetadata(n))]_vars

\* C7 (amended): in real-provider mode, when session creation succeeds the
\* response has the real provider, the redirect URL and the new id and no
\* email is sent; the record is "pending" with a null reference, and stays
\* so, until a confirm call completes for a provider-paid session that
\* resolves to that id: a session whose metadata carries it, or a session
\* WITHOUT metadata confirmed with that id as the purchase_id parameter.
C7_PendingUntilResolvedConfirm ==
    /\ []C7_Response
    /\ [](\A n \in DOMAIN db :
             HasOwnSession(n) =>
                 \/ Pending(n) /\ db[n].payment_reference = None
                 \/ Paid(n) /\ db[n].payment_reference.kind = "cs")
    /\ [][\A n \in DOMAIN db :
             (PAYMENT_PROVIDER = "stripe" /\ Pending(n)
                 /\ \A i \in DOMAIN calls :
                       calls[i].op = "create_checkout" =>
                           (calls[i].purchase_id # OidStr(n)
                               \/ ~calls[i].stripe_error)) =>
                 /\ db[n].payment_reference = None
                 /\ (db'[n] = db[n] \/ ConfirmedByResolution(n))]_vars
C7_Witness ==
    /\ PAYMENT_PROVIDER = "stripe"
    /\ returned.op = "confirm"
    /\ \E n \in DOMAIN db, k \in DOMAIN stripe :
          /\ stripe[k].metadata = [kind |-> "dict", purchase_id |-> OidStr(n)]
          /\ returned.pid = OidStr(n)
          /\ Paid(n)
          /\ db[n].payment_reference = SessionId(k)
    /\ \E m \in DOMAIN db : HasOwnSession(m) /\ Pending(m)

\* C8: across every interleaving of create_checkout and confirm steps,
\* records are never removed, a record is created "pending", and a record's
\* status only moves from "pending" to "paid" or "failed": once it is not
\* "pending" it keeps its status (a "paid" record stays "paid").
C8_StatusMonotone ==
    [][/\ Len(db') >= Len(db)
       /\ \A n \in DOMAIN db' :
             IF n \in DOMAIN db
             THEN /\ db[n].payment_status # "pending" =>
                        db'[n].payment_status = db[n].payment_status
                  /\ db'[n].payment_status \in
                        {db[n].payment_status, "paid", "failed"}
             ELSE db'[n].payment_status = "pending"]_vars
C8_Witness ==
    /\ \E n \in DOMAIN db :
          /\ Paid(n)
          /\ db[n].payment_reference.kind = "cs"
          /\ db[n].updated_at > db[n].created_at + 1
    /\ \E m \in DOMAIN db : Pending(m)

\* C9: a record is mutated at most once after its creation: once it is "paid"
\* with a payment reference, no later step of any create_checkout or confirm
\* call (a repeated or concurrent confirm included) writes to it again.
\* Checked under SpecOwnSessions, where every session is one this program
\* created for a purchase.
C9_PaidWrittenOnce ==
    [][\A n \in DOMAIN db :
          (Paid(n) /\ db[n].payment_reference # None) => db'[n] = db[n]]_vars

\* A record is "paid" exactly when it has a payment reference.
C10_PaidIffReference ==
    \A n \in DOMAIN db :
        /\ db[n].payment_status \in {"pending", "paid"}
        /\ Paid(n) <=> db[n].payment_reference # None

\* The step is the mock branch of n's own create_checkout call, entered
\* because session creation raised.
PaidByFallback(n) ==
    /\ returned'.op = "create_checkout"
    /\ returned'.stripe_error
    /\ returned'.purchase_id = OidStr(n)
    /\ db'[n].payment_status = "paid"
    /\ db'[n].payment_reference = MockOk

\* The provider does report the session the confirm call named as paid.
ProviderReportsPaid ==
    /\ returned'.session_id.kind = "cs"
    /\ returned'.session_id.session \in DOMAIN stripe
    /\ stripe[returned'.session_id.session].payment_status = "paid"

\* C10 as stated: in real-provider mode a record becomes (or is rewritten
\* as) "paid" only by (a) the fallback of its own create_checkout call, with
\* reference "mock-ok", or (b) a confirm call for a session the provider
\* reports as paid whose METADATA purchase_id is that record's id, with the
\* session id as reference; no confirm call touches another record; a record
\* is "paid" exactly when its reference is non-null.
C10_PaidOnlyByMetadata ==
    /\ []C10_PaidIffReference
    /\ [][\A n \in DOMAIN db :
             (PAYMENT_PROVIDER = "stripe" /\ db'[n] # db[n]) =>
                 \/ PaidByFallback(n)
                 \/ ConfirmedByMetadata(n) /\ ProviderReportsPaid]_vars

\* C10 (amended): as stated, except that in (b) the paid session names the
\* record either through its metadata purchase_id or, when the session has
\* NO metadata, through the purchase_id query parameter of the confirm call.
C10_PaidOnlyByResolution ==
    /\ []C10_PaidIffReference
    /\ [][\A n \in DOMAIN db :
             (PAYMENT_PROVIDER = "stripe" /\ db'[n] # db[n]) =>
                 \/ PaidByFallback(n)
                 \/ ConfirmedByResolution(n) /\ ProviderReportsPaid]_vars
C10_Witness ==
    /\ PAYMENT_PROVIDER = "stripe"
    /\ \E n \in DOMAIN db : Paid(n) /\ db[n].payment_reference = MockOk
    /\ \E n \in DOMAIN db : Paid(n) /\ db[n].payment_reference.kind = "cs"
                                    /\ HasOwnSession(n)

====
